---- MODULE Spec2Model ----
(***************************************************************************)
(* A model of the GraphQL autocompletion engine getAutocompleteSuggestions *)
(* (token locator, type context resolver, dispatcher and generators).      *)
(*                                                                         *)
(* Conventions.  A JavaScript value that may be null/undefined is a        *)
(* sequence of length at most one: <<>> is null/undefined, <<v>> is v.     *)
(* A GraphQL type reference is a sequence of wrapper tags ("List",         *)
(* "NonNull") ending with the name of the named type; <<>> is "no type".   *)
(* A string-valued state field (name, type, kind) that is null is "".      *)
(***************************************************************************)
EXTENDS Integers, Sequences, FiniteSets, TLC

VARIABLES
    \* ---- suggestion engine (specification Spec) ----
    pc,          \* "build": the token's state chain is being drawn; "done": suggestions computed
    chain,       \* the state chain of token.state, outermost first; chain[k-1] is chain[k].prevState
    schemaId,    \* the schema the call was made with
    tokText,     \* token.string (the token text up to the cursor)
    fragments,   \* the fragment definitions harvested from the document
    typeInfo,    \* the TypeInfo getTypeInfo(schema, token.state) returned
    result,      \* what getAutocompleteSuggestions returned: [raised, list]
    \* ---- token locator (specification SpecLocator) ----
    lpc,         \* position in runOnlineParser: "idle", "scan" (the while loop),
                 \* "eol" (behind the while loop), "return", "done"
    lineLen,     \* lines[i].length for every line of the document, lines 1..n for i = 0..n-1
    cursor,      \* [row, column], both from 0
    li,          \* the loop index i of runOnlineParser
    start,       \* stream.getStartOfToken() on the current line
    pos,         \* stream.getCurrentPosition() on the current line
    style,       \* the variable style of runOnlineParser
    heap,        \* the state objects allocated so far: id -> [kind, step, name, type, prevState]
    live,        \* the id of the object the variable state of runOnlineParser refers to
    stateAtCursor,   \* 0 (null) or the id of the copy {...state}
    styleAtCursor,   \* "" (null) or the style captured with it
    stringAtCursor,  \* None (null) or the captured stream.current(), as its span
    token,       \* the ContextToken getTokenAtPosition returned, None before
    ghost        \* history of the scan the properties refer to:
                 \*   broke      the callback has returned 'BREAK'
                 \*   afterBreak the tokens parser.token was asked for since then
                 \*   atBreak    stateAtCursor, styleAtCursor, stringAtCursor at that time
                 \*   atCursor   the fields of the live state after the last token that
                 \*              ends at or before the cursor in scan order
                 \*   atCapture  the captured state and its ancestors, by value, at
                 \*              the time of the last capture
                 \*   defs       (harvest) the fragment definitions the lexer opened

vars == <<pc, chain, schemaId, tokText, fragments, typeInfo, result,
          lpc, lineLen, cursor, li, start, pos, style, heap, live,
          stateAtCursor, styleAtCursor, stringAtCursor, token, ghost>>

suggestVars == <<pc, chain, schemaId, tokText, fragments, typeInfo, result>>
locatorVars == <<lpc, lineLen, cursor, li, start, pos, style, heap, live,
                 stateAtCursor, styleAtCursor, stringAtCursor, token, ghost>>

None == <<>>
Some(x) == <<x>>

\* the first element of s whose name is n, or None
FindByName(s, n) ==
    LET hits == SelectSeq(s, LAMBDA d : d.name = n)
    IN  IF hits = <<>> THEN None ELSE Some(hits[1])

\* find(array, predicate) for the predicate "equals v"
find(s, v) ==
    LET hits == SelectSeq(s, LAMBDA x : x = v)
    IN  IF hits = <<>> THEN None ELSE Some(hits[1])

(***************************************************************************)
(* Bounds of the model.                                                    *)
(***************************************************************************)
MaxDepth == 5
MaxStep == 2

(***************************************************************************)
(* The schemas the calls are made with.                                    *)
(***************************************************************************)
SchemaIds == {1, 2}

TypeNames == {"Query", "Character", "Human", "SearchResult", "Episode", "Filter",
              "String", "Boolean", "__Schema", "__Type"}

TypeKind(name) ==
    CASE name \in {"Query", "Human", "__Schema", "__Type"} -> "OBJECT"
      [] name = "Character" -> "INTERFACE"
      [] name = "SearchResult" -> "UNION"
      [] name = "Episode" -> "ENUM"
      [] name = "Filter" -> "INPUT_OBJECT"
      [] OTHER -> "SCALAR"

FieldDef(n, t, a) == [name |-> n, type |-> t, args |-> a]
ArgDef(n, t) == [name |-> n, type |-> t]

\* type.getFields(): the fields of an object, interface or input-object type
TypeFields(name) ==
    CASE name = "Query" ->
            << FieldDef("hero", <<"Character">>,
                        << ArgDef("episode", <<"Episode">>),
                           ArgDef("flag", <<"NonNull", "Boolean">>),
                           ArgDef("filter", <<"Filter">>) >>),
               FieldDef("search", <<"List", "SearchResult">>, <<>>) >>
      [] name = "Character" ->
            << FieldDef("name", <<"String">>, <<>>),
               FieldDef("hero", <<"List", "SearchResult">>, <<>>) >>
      [] name = "Human" ->
            << FieldDef("name", <<"String">>, <<>>),
               FieldDef("hero", <<"List", "SearchResult">>, <<>>) >>
      [] name = "Filter" ->
            << FieldDef("ep", <<"List", "Episode">>, <<>>),
               FieldDef("on", <<"Boolean">>, <<>>) >>
      [] name = "__Schema" -> << FieldDef("types", <<"List", "__Type">>, <<>>) >>
      [] name = "__Type" -> << FieldDef("name", <<"String">>, <<>>) >>
      [] OTHER -> <<>>

EnumValues(name) == IF name = "Episode" THEN <<"NEWHOPE", "EMPIRE">> ELSE <<>>

\* schema.getPossibleTypes(abstractType)
PossibleTypes(name) ==
    CASE name = "Character" -> <<"Human">>
      [] name = "SearchResult" -> <<"Human">>
      [] OTHER -> <<>>

\* objectType.getInterfaces()
Interfaces(name) == IF name = "Human" THEN <<"Character">> ELSE <<>>

DirectiveDef(n, l, a) == [name |-> n, locations |-> l, args |-> a]

Schema(id) ==
    IF id = 1
    THEN [queryType |-> "Query", mutationType |-> "", subscriptionType |-> "",
          directives |->
            << DirectiveDef("skip", <<"FIELD", "FRAGMENT_SPREAD", "INLINE_FRAGMENT">>,
                            << ArgDef("if", <<"NonNull", "Boolean">>),
                               ArgDef("filter", <<"NonNull", "Filter">>),
                               ArgDef("episode", <<"List", "Episode">>) >>),
               DirectiveDef("onFrag", <<"FRAGMENT_DEFINITION">>, <<>>),
               DirectiveDef("onQuery", <<"QUERY", "MUTATION">>, <<>>) >>]
    ELSE [queryType |-> "Human", mutationType |-> "Query", subscriptionType |-> "Human",
          directives |->
            << DirectiveDef("skip", <<"FIELD">>,
                            << ArgDef("if", <<"NonNull", "Boolean">>) >>),
               DirectiveDef("onFrag", <<"FRAGMENT_DEFINITION">>, <<>>),
               DirectiveDef("sub", <<"SUBSCRIPTION", "FRAGMENT_SPREAD">>, <<>>) >>]

\* schema.getQueryType() etc.: a named type reference, or no type
RootType(name) == IF name = "" THEN None ELSE <<name>>
\* schema.getType(name)
getType(name) == IF name \in TypeNames THEN <<name>> ELSE None
\* schema.getDirective(name)
getDirective(schema, name) == FindByName(schema.directives, name)

(***************************************************************************)
(* graphql type predicates and unwrappers.                                 *)
(***************************************************************************)
getNamedType(t) == IF t = <<>> THEN <<>> ELSE <<t[Len(t)]>>
getNullableType(t) == IF t # <<>> /\ t[1] = "NonNull" THEN Tail(t) ELSE t
IsNamed(t) == Len(t) = 1
isAbstractType(t) == IsNamed(t) /\ TypeKind(t[1]) \in {"INTERFACE", "UNION"}
isCompositeType(t) == IsNamed(t) /\ TypeKind(t[1]) \in {"OBJECT", "INTERFACE", "UNION"}
isInputType(t) == IsNamed(t) /\ TypeKind(t[1]) \in {"SCALAR", "ENUM", "INPUT_OBJECT"}
IsEnumType(t) == IsNamed(t) /\ TypeKind(t[1]) = "ENUM"
IsInputObjectType(t) == IsNamed(t) /\ TypeKind(t[1]) = "INPUT_OBJECT"
IsListType(t) == t # <<>> /\ t[1] = "List"
HasGetFields(t) == IsNamed(t) /\ TypeKind(t[1]) \in {"OBJECT", "INTERFACE", "INPUT_OBJECT"}

SeqToSet(s) == {s[i] : i \in 1..Len(s)}

isPossibleType(abstract, t) == t[1] \in SeqToSet(PossibleTypes(abstract[1]))

doTypesOverlap(a, b) ==
    IF a = b THEN TRUE
    ELSE IF isAbstractType(a)
         THEN IF isAbstractType(b)
              THEN \E p \in SeqToSet(PossibleTypes(a[1])) : isPossibleType(b, <<p>>)
              ELSE isPossibleType(a, b)
         ELSE IF isAbstractType(b) THEN isPossibleType(b, a) ELSE FALSE

TypeNameMetaFieldDef == FieldDef("__typename", <<"NonNull", "String">>, <<>>)
SchemaMetaFieldDef == FieldDef("__schema", <<"NonNull", "__Schema">>, <<>>)
TypeMetaFieldDef ==
    FieldDef("__type", <<"__Type">>, << ArgDef("name", <<"NonNull", "String">>) >>)

\* getFieldDef(schema, type, fieldName) of autocompleteUtils
getFieldDef(schema, type, fieldName) ==
    IF fieldName = "__schema" /\ RootType(schema.queryType) = type
    THEN Some(SchemaMetaFieldDef)
    ELSE IF fieldName = "__type" /\ RootType(schema.queryType) = type
    THEN Some(TypeMetaFieldDef)
    ELSE IF fieldName = "__typename" /\ isCompositeType(type)
    THEN Some(TypeNameMetaFieldDef)
    ELSE IF HasGetFields(type)
    THEN FindByName(TypeFields(type[1]), fieldName)
    ELSE None

(***************************************************************************)
(* Parser states.                                                          *)
(***************************************************************************)
State(k, s, n, t) == [kind |-> k, step |-> s, name |-> n, type |-> t]

\* forEachState(stack, fn) of autocompleteUtils: the index of the outermost
\* state fn is called with; fn is then called for FirstIndex(c)..Len(c).
RECURSIVE FirstIndex(_, _)
FirstIndex(c, k) ==
    IF k >= 1 /\ c[k].kind # "" THEN FirstIndex(c, k - 1) ELSE k + 1

EmptyTypeInfo ==
    [type |-> None, parentType |-> None, inputType |-> None, directiveDef |-> None,
     enumValue |-> None, fieldDef |-> None, argDef |-> None, argDefs |-> None,
     objectFieldDefs |-> None]

\* state.prevState of chain[k]
PrevState(c, k) == IF k > 1 THEN Some(c[k - 1]) ELSE None

(***************************************************************************)
(* Type Context Resolver: getTypeInfo.                                     *)
(***************************************************************************)
\* case 'Field' / 'AliasedField'
FieldStep(schema, ti, state) ==
    IF ti.type = None \/ state.name = ""
    THEN [ti EXCEPT !.fieldDef = None]
    ELSE LET fd == IF ti.parentType # None
                   THEN getFieldDef(schema, ti.parentType, state.name)
                   ELSE None
         IN  [ti EXCEPT !.fieldDef = fd,
                        !.type = IF fd # None THEN fd[1].type ELSE None]

\* case 'Arguments'
ArgumentsStep(schema, ti, prev) ==
    IF prev = None
    THEN [ti EXCEPT !.argDefs = None]
    ELSE CASE prev[1].kind = "Field" ->
                [ti EXCEPT !.argDefs = IF ti.fieldDef # None
                                       THEN Some(ti.fieldDef[1].args) ELSE None]
           [] prev[1].kind = "Directive" ->
                [ti EXCEPT !.argDefs = IF ti.directiveDef # None
                                       THEN Some(ti.directiveDef[1].args) ELSE None]
           [] prev[1].kind = "AliasedField" ->
                IF prev[1].name = ""
                THEN [ti EXCEPT !.argDefs = None]
                ELSE LET field == IF ti.parentType # None
                                  THEN getFieldDef(schema, ti.parentType, prev[1].name)
                                  ELSE None
                     IN  [ti EXCEPT !.argDefs = IF field = None THEN None
                                                ELSE Some(field[1].args)]
           [] OTHER -> [ti EXCEPT !.argDefs = None]

\* case 'Argument': argDef keeps its value when no definition matches
ArgumentStep(ti, state) ==
    LET hit == IF ti.argDefs # None
               THEN FindByName(ti.argDefs[1], state.name)
               ELSE None
        ad == IF hit # None THEN hit ELSE ti.argDef
    IN  [ti EXCEPT !.argDef = ad,
                   !.inputType = IF ad # None THEN ad[1].type ELSE None]

\* case 'EnumValue'
EnumValueStep(ti, state) ==
    LET enumType == getNamedType(ti.inputType)
    IN  [ti EXCEPT !.enumValue =
            IF IsEnumType(enumType)
            THEN find(EnumValues(enumType[1]), state.name)
            ELSE None]

\* case 'ListValue'
ListValueStep(ti) ==
    LET nullableType == getNullableType(ti.inputType)
    IN  [ti EXCEPT !.inputType =
            IF IsListType(nullableType) THEN Tail(nullableType) ELSE None]

\* case 'ObjectValue'
ObjectValueStep(ti) ==
    LET objectType == getNamedType(ti.inputType)
    IN  [ti EXCEPT !.objectFieldDefs =
            IF IsInputObjectType(objectType)
            THEN Some(TypeFields(objectType[1])) ELSE None]

\* case 'ObjectField'
ObjectFieldStep(ti, state) ==
    LET objectField == IF state.name # "" /\ ti.objectFieldDefs # None
                       THEN FindByName(ti.objectFieldDefs[1], state.name)
                       ELSE None
    IN  [ti EXCEPT !.inputType =
            IF objectField # None THEN objectField[1].type ELSE None]

\* the switch with a default clause that forgets the current type
TypeInfoStep_DefaultClears(schema, ti, state, prev) ==
    CASE state.kind \in {"Query", "ShortQuery"} ->
            [ti EXCEPT !.type = RootType(schema.queryType)]
      [] state.kind = "Mutation" ->
            [ti EXCEPT !.type = RootType(schema.mutationType)]
      [] state.kind = "Subscription" ->
            [ti EXCEPT !.type = RootType(schema.subscriptionType)]
      [] state.kind \in {"InlineFragment", "FragmentDefinition"} ->
            IF state.type # "" THEN [ti EXCEPT !.type = getType(state.type)] ELSE ti
      [] state.kind \in {"Field", "AliasedField"} -> FieldStep(schema, ti, state)
      [] state.kind = "SelectionSet" ->
            [ti EXCEPT !.parentType = getNamedType(ti.type)]
      [] state.kind = "Directive" ->
            [ti EXCEPT !.directiveDef =
                IF state.name # "" THEN getDirective(schema, state.name) ELSE None]
      [] state.kind = "Arguments" -> ArgumentsStep(schema, ti, prev)
      [] state.kind = "Argument" -> ArgumentStep(ti, state)
      [] state.kind = "EnumValue" -> EnumValueStep(ti, state)
      [] state.kind = "ListValue" -> ListValueStep(ti)
      [] state.kind = "ObjectValue" -> ObjectValueStep(ti)
      [] state.kind = "ObjectField" -> ObjectFieldStep(ti, state)
      [] state.kind = "NamedType" ->
            IF state.name # "" THEN [ti EXCEPT !.type = getType(state.name)] ELSE ti
      [] OTHER -> [ti EXCEPT !.type = None]

\* the body of the callback getTypeInfo hands to forEachState: the switch
TypeInfoStep(schema, ti, state, prev) ==
    CASE state.kind \in {"Query", "ShortQuery"} ->
            [ti EXCEPT !.type = RootType(schema.queryType)]
      [] state.kind = "Mutation" ->
            [ti EXCEPT !.type = RootType(schema.mutationType)]
      [] state.kind = "Subscription" ->
            [ti EXCEPT !.type = RootType(schema.subscriptionType)]
      [] state.kind \in {"InlineFragment", "FragmentDefinition"} ->
            IF state.type # "" THEN [ti EXCEPT !.type = getType(state.type)] ELSE ti
      [] state.kind \in {"Field", "AliasedField"} -> FieldStep(schema, ti, state)
      [] state.kind = "SelectionSet" ->
            [ti EXCEPT !.parentType = getNamedType(ti.type)]
      [] state.kind = "Directive" ->
            [ti EXCEPT !.directiveDef =
                IF state.name # "" THEN getDirective(schema, state.name) ELSE None]
      [] state.kind = "Arguments" -> ArgumentsStep(schema, ti, prev)
      [] state.kind = "Argument" -> ArgumentStep(ti, state)
      [] state.kind = "EnumValue" -> EnumValueStep(ti, state)
      [] state.kind = "ListValue" -> ListValueStep(ti)
      [] state.kind = "ObjectValue" -> ObjectValueStep(ti)
      [] state.kind = "ObjectField" -> ObjectFieldStep(ti, state)
      [] state.kind = "NamedType" ->
            IF state.name # "" THEN [ti EXCEPT !.type = getType(state.name)] ELSE ti
      [] OTHER -> ti

\* the type context after the callback ran for the states first..k of chain c
RECURSIVE FoldTo(_, _, _, _)
FoldTo(schema, c, first, k) ==
    IF k < first THEN EmptyTypeInfo
    ELSE TypeInfoStep(schema, FoldTo(schema, c, first, k - 1), c[k], PrevState(c, k))

\* getTypeInfo(schema, tokenState), tokenState being the last state of chain c
getTypeInfo(schema, c) == FoldTo(schema, c, FirstIndex(c, Len(c)), Len(c))

(***************************************************************************)
(* Texts.  A text is a string; Chars gives its characters, so that the     *)
(* prefix filter of the hint list is computed character by character.      *)
(***************************************************************************)
Chars(s) ==
    CASE s = "{" -> <<"{">>
      [] s = "@" -> <<"@">>
      [] s = "h" -> <<"h">>
      [] s = "on" -> <<"o", "n">>
      [] s = "F" -> <<"F">>
      [] s = "__t" -> <<"_", "_", "t">>
      [] s = "query" -> <<"q", "u", "e", "r", "y">>
      [] s = "mutation" -> <<"m", "u", "t", "a", "t", "i", "o", "n">>
      [] s = "subscription" -> <<"s", "u", "b", "s", "c", "r", "i", "p", "t", "i", "o", "n">>
      [] s = "fragment" -> <<"f", "r", "a", "g", "m", "e", "n", "t">>
      [] s = "hero" -> <<"h", "e", "r", "o">>
      [] s = "search" -> <<"s", "e", "a", "r", "c", "h">>
      [] s = "name" -> <<"n", "a", "m", "e">>
      [] s = "ep" -> <<"e", "p">>
      [] s = "types" -> <<"t", "y", "p", "e", "s">>
      [] s = "__typename" -> <<"_", "_", "t", "y", "p", "e", "n", "a", "m", "e">>
      [] s = "__schema" -> <<"_", "_", "s", "c", "h", "e", "m", "a">>
      [] s = "__type" -> <<"_", "_", "t", "y", "p", "e">>
      [] s = "episode" -> <<"e", "p", "i", "s", "o", "d", "e">>
      [] s = "flag" -> <<"f", "l", "a", "g">>
      [] s = "filter" -> <<"f", "i", "l", "t", "e", "r">>
      [] s = "if" -> <<"i", "f">>
      [] s = "NEWHOPE" -> <<"N", "E", "W", "H", "O", "P", "E">>
      [] s = "EMPIRE" -> <<"E", "M", "P", "I", "R", "E">>
      [] s = "true" -> <<"t", "r", "u", "e">>
      [] s = "false" -> <<"f", "a", "l", "s", "e">>
      [] s = "Query" -> <<"Q", "u", "e", "r", "y">>
      [] s = "Character" -> <<"C", "h", "a", "r", "a", "c", "t", "e", "r">>
      [] s = "Human" -> <<"H", "u", "m", "a", "n">>
      [] s = "SearchResult" -> <<"S", "e", "a", "r", "c", "h", "R", "e", "s", "u", "l", "t">>
      [] s = "Episode" -> <<"E", "p", "i", "s", "o", "d", "e">>
      [] s = "Filter" -> <<"F", "i", "l", "t", "e", "r">>
      [] s = "String" -> <<"S", "t", "r", "i", "n", "g">>
      [] s = "Boolean" -> <<"B", "o", "o", "l", "e", "a", "n">>
      [] s = "__Schema" -> <<"_", "_", "S", "c", "h", "e", "m", "a">>
      [] s = "__Type" -> <<"_", "_", "T", "y", "p", "e">>
      [] s = "G" -> <<"G">>
      [] s = "skip" -> <<"s", "k", "i", "p">>
      [] s = "onFrag" -> <<"o", "n", "F", "r", "a", "g">>
      [] s = "onQuery" -> <<"o", "n", "Q", "u", "e", "r", "y">>
      [] s = "sub" -> <<"s", "u", "b">>
      [] OTHER -> <<>>

PunctuationChars == {"{", "}", "(", ")", "[", "]", ":", "@", "$", "!", "=", "|", "."}

IsPunctuation(s) == \A i \in 1..Len(Chars(s)) : Chars(s)[i] \in PunctuationChars

IsPrefix(p, t) == Len(p) <= Len(t) /\ SubSeq(t, 1, Len(p)) = p

\* hintList(cursor, token, list) of autocompleteUtils: the candidates whose text
\* starts with the token text, in the order given; all of them when the token
\* text is empty or punctuation
hintList(text, list) ==
    IF text = "" \/ IsPunctuation(text)
    THEN list
    ELSE SelectSeq(list, LAMBDA e : IsPrefix(Chars(text), Chars(e.text)))

Hint(t) == [text |-> t]

\* array.map(x => ({text: x.name, ...})) for a sequence of definitions
NameHints(defs) == [i \in 1..Len(defs) |-> Hint(defs[i].name)]
\* array.map(x => ({text: x})) for a sequence of names
TextHints(names) == [i \in 1..Len(names) |-> Hint(names[i])]

\* s without the later occurrences of an element
RECURSIVE Dedup(_)
Dedup(s) ==
    IF s = <<>> THEN <<>>
    ELSE LET front == Dedup(SubSeq(s, 1, Len(s) - 1))
             last == s[Len(s)]
         IN  IF last \in SeqToSet(front) THEN front ELSE Append(front, last)

RECURSIVE Flatten(_)
Flatten(ss) == IF ss = <<>> THEN <<>> ELSE Head(ss) \o Flatten(Tail(ss))

Texts(list) == {list[i].text : i \in 1..Len(list)}

(***************************************************************************)
(* Suggestion generators.                                                  *)
(***************************************************************************)
\* objectValues(schema.getTypeMap()): the types of the schema in map order
TypeMap == <<"Query", "Character", "Human", "SearchResult", "Episode", "Filter",
             "String", "Boolean", "__Schema", "__Type">>

\* getSuggestionsForFieldNames without the meta-field of abstract types
getSuggestionsForFieldNames_NoTypeName(schema, text, ti) ==
    IF ti.parentType # None
    THEN LET parentType == ti.parentType
             own == IF HasGetFields(parentType) THEN TypeFields(parentType[1]) ELSE <<>>
             fields == IF parentType = RootType(schema.queryType)
                       THEN own \o <<SchemaMetaFieldDef, TypeMetaFieldDef>>
                       ELSE own
         IN  hintList(text, NameHints(fields))
    ELSE <<>>

getSuggestionsForFieldNames(schema, text, ti) ==
    IF ti.parentType # None
    THEN LET parentType == ti.parentType
             own == IF HasGetFields(parentType) THEN TypeFields(parentType[1]) ELSE <<>>
             withTypeName == IF isAbstractType(parentType)
                             THEN Append(own, TypeNameMetaFieldDef) ELSE own
             fields == IF parentType = RootType(schema.queryType)
                       THEN withTypeName \o <<SchemaMetaFieldDef, TypeMetaFieldDef>>
                       ELSE withTypeName
         IN  hintList(text, NameHints(fields))
    ELSE <<>>

getSuggestionsForInputValues(text, ti) ==
    LET namedInputType == getNamedType(ti.inputType)
    IN  IF IsEnumType(namedInputType)
        THEN hintList(text, TextHints(EnumValues(namedInputType[1])))
        ELSE IF namedInputType = <<"Boolean">>
        THEN hintList(text, <<Hint("true"), Hint("false")>>)
        ELSE <<>>

getSuggestionsForFragmentTypeConditions(text, ti) ==
    LET possibleTypes ==
            IF ti.parentType # None
            THEN IF isAbstractType(ti.parentType)
                 THEN LET possibleObjTypes == PossibleTypes(ti.parentType[1])
                          ifaces == Dedup(Flatten([i \in 1..Len(possibleObjTypes) |->
                                                      Interfaces(possibleObjTypes[i])]))
                      IN  possibleObjTypes \o ifaces
                 ELSE <<ti.parentType[1]>>
            ELSE SelectSeq(TypeMap, LAMBDA n : isCompositeType(<<n>>))
    IN  hintList(text, TextHints(possibleTypes))

\* getDefinitionState(tokenState) of autocompleteUtils: the innermost
\* definition state of the chain, or None
getDefinitionState(c) ==
    LET defs == {k \in FirstIndex(c, Len(c))..Len(c) :
                    c[k].kind \in {"Query", "ShortQuery", "Mutation", "Subscription",
                                   "FragmentDefinition"}}
    IN  IF defs = {} THEN None ELSE Some(c[CHOOSE k \in defs : \A j \in defs : j <= k])

\* the filter without the test that excludes the enclosing fragment
IsRelevantFrag_NoCycleTest(c, ti, frag) ==
    /\ getType(frag.type) # None
    /\ isCompositeType(ti.parentType)
    /\ isCompositeType(getType(frag.type))
    /\ doTypesOverlap(ti.parentType, getType(frag.type))

\* the filter of getSuggestionsForFragmentSpread
IsRelevantFrag(c, ti, frag) ==
    /\ getType(frag.type) # None
    /\ LET defState == getDefinitionState(c)
       IN  ~(defState # None /\ defState[1].kind = "FragmentDefinition"
             /\ defState[1].name = frag.name)
    /\ isCompositeType(ti.parentType)
    /\ isCompositeType(getType(frag.type))
    /\ doTypesOverlap(ti.parentType, getType(frag.type))

getSuggestionsForFragmentSpread(c, text, ti, frags) ==
    LET relevantFrags == SelectSeq(frags, LAMBDA f : IsRelevantFrag(c, ti, f))
    IN  hintList(text, NameHints(relevantFrags))

getSuggestionsForVariableDefinition(text) ==
    hintList(text, TextHints(SelectSeq(TypeMap, LAMBDA n : isInputType(<<n>>))))

\* canUseDirective with the Field case testing the location of the case after it
canUseDirective_FieldAsFragment(kind, directive) ==
    LET locations == SeqToSet(directive.locations)
    IN  CASE kind = "Query" -> "QUERY" \in locations
          [] kind = "Mutation" -> "MUTATION" \in locations
          [] kind = "Subscription" -> "SUBSCRIPTION" \in locations
          [] kind \in {"Field", "AliasedField"} -> "FRAGMENT_DEFINITION" \in locations
          [] kind = "FragmentDefinition" -> "FRAGMENT_DEFINITION" \in locations
          [] kind = "FragmentSpread" -> "FRAGMENT_SPREAD" \in locations
          [] kind = "InlineFragment" -> "INLINE_FRAGMENT" \in locations
          [] OTHER -> FALSE

canUseDirective(kind, directive) ==
    LET locations == SeqToSet(directive.locations)
    IN  CASE kind = "Query" -> "QUERY" \in locations
          [] kind = "Mutation" -> "MUTATION" \in locations
          [] kind = "Subscription" -> "SUBSCRIPTION" \in locations
          [] kind \in {"Field", "AliasedField"} -> "FIELD" \in locations
          [] kind = "FragmentDefinition" -> "FRAGMENT_DEFINITION" \in locations
          [] kind = "FragmentSpread" -> "FRAGMENT_SPREAD" \in locations
          [] kind = "InlineFragment" -> "INLINE_FRAGMENT" \in locations
          [] OTHER -> FALSE

\* prev is state.prevState of the Directive state
getSuggestionsForDirective(schema, text, prev) ==
    IF prev # None /\ prev[1].kind # ""
    THEN LET stateKind == prev[1].kind
             directives == SelectSeq(schema.directives,
                                     LAMBDA d : canUseDirective(stateKind, d))
         IN  hintList(text, NameHints(directives))
    ELSE <<>>

(***************************************************************************)
(* Suggestion dispatcher: getAutocompleteSuggestions.                      *)
(***************************************************************************)
Ok(list) == [raised |-> FALSE, list |-> list]
TypeError == [raised |-> TRUE, list |-> <<>>]

\* The rules of the dispatcher, in the order the code tests them.
RuleDocument == "document"
RuleSelection == "selection"
RuleArgumentName == "argument name"
RuleObjectFieldName == "input-object field name"
RuleLiteralValue == "literal value"
RuleTypeCondition == "fragment type condition"
RuleFragmentSpread == "fragment spread name"
RuleVariableType == "variable type"
RuleDirective == "directive name"
CodeOrder == <<RuleDocument, RuleSelection, RuleArgumentName, RuleObjectFieldName,
               RuleLiteralValue, RuleTypeCondition, RuleFragmentSpread,
               RuleVariableType, RuleDirective>>
Rules == SeqToSet(CodeOrder)

\* RuleCondition with the literal-value rule matching an Argument at any step
RuleCondition_ArgumentAnyStep(r, state, prev) ==
    LET kind == state.kind
        step == state.step
    IN  CASE r = RuleDocument -> kind = "Document"
          [] r = RuleSelection -> kind \in {"SelectionSet", "Field", "AliasedField"}
          [] r = RuleArgumentName -> kind = "Arguments" \/ (kind = "Argument" /\ step = 0)
          [] r = RuleObjectFieldName ->
                kind = "ObjectValue" \/ (kind = "ObjectField" /\ step = 0)
          [] r = RuleLiteralValue ->
                \/ kind = "EnumValue"
                \/ (kind = "ListValue" /\ step = 1)
                \/ (kind = "ObjectField" /\ step = 2)
                \/ kind = "Argument"
          [] r = RuleTypeCondition ->
                \/ (kind = "TypeCondition" /\ step = 1)
                \/ (kind = "NamedType" /\ prev # None /\ prev[1].kind = "TypeCondition")
          [] r = RuleFragmentSpread -> kind = "FragmentSpread" /\ step = 1
          [] r = RuleVariableType ->
                \/ (kind = "VariableDefinition" /\ step = 2)
                \/ (kind = "ListType" /\ step = 1)
                \/ (kind = "NamedType" /\ prev # None
                    /\ prev[1].kind \in {"VariableDefinition", "ListType"})
          [] r = RuleDirective -> kind = "Directive"

\* the condition of the if statement of rule r; prev is state.prevState
RuleCondition(r, state, prev) ==
    LET kind == state.kind
        step == state.step
    IN  CASE r = RuleDocument -> kind = "Document"
          [] r = RuleSelection -> kind \in {"SelectionSet", "Field", "AliasedField"}
          [] r = RuleArgumentName -> kind = "Arguments" \/ (kind = "Argument" /\ step = 0)
          [] r = RuleObjectFieldName ->
                kind = "ObjectValue" \/ (kind = "ObjectField" /\ step = 0)
          [] r = RuleLiteralValue ->
                \/ kind = "EnumValue"
                \/ (kind = "ListValue" /\ step = 1)
                \/ (kind = "ObjectField" /\ step = 2)
                \/ (kind = "Argument" /\ step = 2)
          [] r = RuleTypeCondition ->
                \/ (kind = "TypeCondition" /\ step = 1)
                \/ (kind = "NamedType" /\ prev # None /\ prev[1].kind = "TypeCondition")
          [] r = RuleFragmentSpread -> kind = "FragmentSpread" /\ step = 1
          [] r = RuleVariableType ->
                \/ (kind = "VariableDefinition" /\ step = 2)
                \/ (kind = "ListType" /\ step = 1)
                \/ (kind = "NamedType" /\ prev # None
                    /\ prev[1].kind \in {"VariableDefinition", "ListType"})
          [] r = RuleDirective -> kind = "Directive"

\* what the body of rule r returns: Some(list), or None when the body returns
\* nothing and control falls through to the rules after it
RuleBody(r, schema, c, text, ti, frags, prev) ==
    CASE r = RuleDocument ->
            Some(hintList(text, TextHints(<<"query", "mutation", "subscription",
                                            "fragment", "{">>)))
      [] r = RuleSelection -> Some(getSuggestionsForFieldNames(schema, text, ti))
      [] r = RuleArgumentName ->
            IF ti.argDefs # None
            THEN Some(hintList(text, NameHints(ti.argDefs[1]))) ELSE None
      [] r = RuleObjectFieldName ->
            IF ti.objectFieldDefs # None
            THEN Some(hintList(text, NameHints(ti.objectFieldDefs[1]))) ELSE None
      [] r = RuleLiteralValue -> Some(getSuggestionsForInputValues(text, ti))
      [] r = RuleTypeCondition -> Some(getSuggestionsForFragmentTypeConditions(text, ti))
      [] r = RuleFragmentSpread ->
            Some(getSuggestionsForFragmentSpread(c, text, ti, frags))
      [] r = RuleVariableType -> Some(getSuggestionsForVariableDefinition(text))
      [] r = RuleDirective -> Some(getSuggestionsForDirective(schema, text, prev))

\* the rules tested in the order `order`: the first whose condition holds and
\* whose body returns decides; the final `return []` otherwise
RECURSIVE Dispatch(_, _, _, _, _, _, _, _)
Dispatch(order, schema, c, text, ti, frags, state, prev) ==
    IF order = <<>> THEN <<>>
    ELSE LET r == Head(order)
             body == IF RuleCondition(r, state, prev)
                     THEN RuleBody(r, schema, c, text, ti, frags, prev) ELSE None
         IN  IF body # None THEN body[1]
             ELSE Dispatch(Tail(order), schema, c, text, ti, frags, state, prev)

\* the index in chain c of `state`: token.state, or its prevState when
\* token.state is Invalid; 0 when that prevState is null
StateIndex(c) == IF c[Len(c)].kind = "Invalid" THEN Len(c) - 1 ELSE Len(c)

\* getAutocompleteSuggestions without the `if (!state) return []` guard:
\* state.kind is then read from a null state
getAutocompleteSuggestions_NoStateGuard(schema, c, text, frags) ==
    LET si == StateIndex(c)
    IN  IF si = 0
        THEN TypeError
        ELSE Ok(Dispatch(CodeOrder, schema, c, text, getTypeInfo(schema, c), frags,
                         c[si], PrevState(c, si)))

\* c is the chain of token.state, text is token.string, frags is what
\* getFragmentDefinitions(queryText) returns
getAutocompleteSuggestions(schema, c, text, frags) ==
    LET si == StateIndex(c)
    IN  IF si = 0
        THEN Ok(<<>>)
        ELSE Ok(Dispatch(CodeOrder, schema, c, text, getTypeInfo(schema, c), frags,
                         c[si], PrevState(c, si)))

(***************************************************************************)
(* The suggestion engine as a state machine.  The inputs of a call are     *)
(* drawn first: the state chain of the located token is built state by     *)
(* state (PushState, Advance); then getAutocompleteSuggestions runs once   *)
(* (Suggest), with a schema, a token text and a fragment harvest.          *)
(* Only the step of token.state and of the state below an Invalid state is *)
(* read by the code, so the states below carry step 0.                     *)
(***************************************************************************)
Kinds == {"Document", "Query", "ShortQuery", "Mutation", "Subscription",
          "FragmentDefinition", "InlineFragment", "TypeCondition", "NamedType",
          "SelectionSet", "Field", "AliasedField", "FragmentSpread", "Directive",
          "Arguments", "Argument", "EnumValue", "ListValue", "ObjectValue",
          "ObjectField", "VariableDefinition", "ListType", "Variable"}

\* the kinds the parser pushes on a state of kind k
Nest(k) ==
    CASE k = "" -> {"Document"}
      [] k = "Document" -> {"Query", "ShortQuery", "Mutation", "Subscription",
                            "FragmentDefinition"}
      [] k = "Query" -> {"SelectionSet", "Directive", "VariableDefinition"}
      [] k \in {"Mutation", "Subscription", "ShortQuery"} -> {"SelectionSet", "Directive"}
      [] k \in {"FragmentDefinition", "InlineFragment"} ->
            {"TypeCondition", "SelectionSet", "Directive"}
      [] k = "TypeCondition" -> {"NamedType"}
      [] k = "SelectionSet" -> {"Field", "AliasedField", "InlineFragment", "FragmentSpread"}
      [] k \in {"Field", "AliasedField"} -> {"Arguments", "Directive", "SelectionSet"}
      [] k = "FragmentSpread" -> {"Directive"}
      [] k = "Directive" -> {"Arguments"}
      [] k = "Arguments" -> {"Argument"}
      [] k = "Argument" -> {"EnumValue", "ListValue", "ObjectValue", "Variable"}
      [] k = "ListValue" -> {"EnumValue", "ObjectValue"}
      [] k = "ObjectValue" -> {"ObjectField"}
      [] k = "ObjectField" -> {"EnumValue", "ListValue", "ObjectValue"}
      [] k = "VariableDefinition" -> {"NamedType", "ListType", "Variable"}
      [] k = "ListType" -> {"NamedType"}
      [] OTHER -> {}

\* the values of state.name drawn for a state of kind k ("" is null)
NameDomain(k) ==
    CASE k = "Field" -> {"", "hero", "name"}
      [] k = "AliasedField" -> {"hero"}
      [] k = "Argument" -> {"", "episode", "flag", "filter"}
      [] k = "ObjectField" -> {"", "ep"}
      [] k = "EnumValue" -> {"", "NEWHOPE"}
      [] k = "Directive" -> {"", "skip"}
      [] k = "NamedType" -> {"", "Human"}
      [] k = "FragmentDefinition" -> {"", "F"}
      [] OTHER -> {""}

\* the values of state.type drawn for a state of kind k ("" is null)
TypeDomain(k) ==
    CASE k = "FragmentDefinition" -> {"Character", "Nope"}
      [] k = "InlineFragment" -> {"", "Human"}
      [] OTHER -> {""}

TokenTexts == {"", "{", "__t", "h"}

MaxFrags == 1
FragNames == {"F", "G"}
FragTypes == {"Character", "Episode", "Nope"}
Frag(n, t) == [name |-> n, type |-> t]
AllFrags == {Frag(n, t) : n \in FragNames, t \in FragTypes}
FragLists == UNION {[1..n -> AllFrags] : n \in 0..MaxFrags}

\* the harvests drawn for a call: getFragmentDefinitions runs only at a
\* fragment-spread position
Harvests(c) ==
    IF c # <<>> /\ StateIndex(c) > 0
       /\ RuleCondition(RuleFragmentSpread, c[StateIndex(c)], None)
    THEN FragLists ELSE {<<>>}

Top(c) == c[Len(c)]

Init ==
    /\ pc = "build"
    /\ chain = <<>>
    /\ schemaId = 0
    /\ tokText = ""
    /\ fragments = <<>>
    /\ typeInfo = EmptyTypeInfo
    /\ result = Ok(<<>>)
    /\ lpc = "idle"
    /\ lineLen = <<>>
    /\ cursor = [row |-> 0, column |-> 0]
    /\ li = 0
    /\ start = 0
    /\ pos = 0
    /\ style = ""
    /\ heap = <<>>
    /\ live = 0
    /\ stateAtCursor = 0
    /\ styleAtCursor = ""
    /\ stringAtCursor = None
    /\ token = None
    /\ ghost = <<>>

\* the parser pushes a rule: a state of kind k on top of the chain
PushState(k, n, t) ==
    /\ pc = "build"
    /\ Len(chain) < MaxDepth
    /\ \/ chain = <<>>
       \/ /\ chain # <<>>
          /\ Top(chain).kind # "Invalid"
          /\ \/ k = "Invalid"
             \/ k \in Nest(Top(chain).kind) /\ Top(chain).step = 0
    /\ chain' = Append(chain, State(k, 0, n, t))
    /\ UNCHANGED <<pc, schemaId, tokText, fragments, typeInfo, result>>
    /\ UNCHANGED locatorVars

\* the kinds whose step the dispatcher reads
StepKinds == {"Argument", "ObjectField", "ListValue", "TypeCondition", "FragmentSpread",
              "VariableDefinition", "ListType"}

\* the parser advances the rule of the live state
Advance ==
    /\ pc = "build"
    /\ chain # <<>>
    /\ Top(chain).kind \in StepKinds
    /\ Top(chain).step < MaxStep
    /\ chain' = [chain EXCEPT ![Len(chain)].step = @ + 1]
    /\ UNCHANGED <<pc, schemaId, tokText, fragments, typeInfo, result>>
    /\ UNCHANGED locatorVars

\* one call of getAutocompleteSuggestions(schema, queryText, cursor)
Suggest(id, text, frags) ==
    /\ pc = "build"
    /\ chain # <<>>
    /\ pc' = "done"
    /\ schemaId' = id
    /\ tokText' = text
    /\ fragments' = frags
    /\ typeInfo' = getTypeInfo(Schema(id), chain)
    /\ result' = getAutocompleteSuggestions(Schema(id), chain, text, frags)
    /\ UNCHANGED chain
    /\ UNCHANGED locatorVars

Next ==
    \/ \E k \in Kinds \cup {"", "Invalid"} : \E n \in NameDomain(k), t \in TypeDomain(k) :
          PushState(k, n, t)
    \/ Advance
    \/ \E id \in SchemaIds, text \in TokenTexts, frags \in Harvests(chain) :
          Suggest(id, text, frags)

Spec == Init /\ [][Next]_vars

(***************************************************************************)
(* The Token Locator: getTokenAtPosition over runOnlineParser.             *)
(*                                                                         *)
(* State objects live in a heap so that two references to one object are   *)
(* told from two equal objects: prevState holds an id, 0 is null.  The     *)
(* online parser keeps one live object and changes it in place; pushRule   *)
(* moves a copy of it behind prevState.  A line is the sequence of its     *)
(* columns; the lexer decides how many of them a token takes and what the  *)
(* token does to the state.                                                *)
(***************************************************************************)
MaxLines == 2
MaxCol == 3

HeapState(k, s, n, t, p) == [kind |-> k, step |-> s, name |-> n, type |-> t, prevState |-> p]

\* pushRule(rules, state, ruleKind): state.prevState = {...state}, then kind,
\* name, type and step of the live object are reset
pushRule(h, l, k) ==
    [Append(h, h[l]) EXCEPT ![l] = HeapState(k, 0, "", "", Len(h) + 1)]

\* popRule(state): the live object takes over every field of its prevState
popRule(h, l) ==
    IF h[l].prevState = 0 THEN h ELSE [h EXCEPT ![l] = h[h[l].prevState]]

\* the update of a name terminal: state.name = token.value
nameUpdate(h, l, v) == [h EXCEPT ![l].name = v]

\* the update of a type terminal: state.name = token.value and
\* state.prevState.prevState.type = token.value
typeUpdate(h, l, v) ==
    IF h[l].prevState # 0 /\ h[h[l].prevState].prevState # 0
    THEN [h EXCEPT ![l].name = v, ![h[h[l].prevState].prevState].type = v]
    ELSE h

\* advanceRule(state): the live object moves to the next step of its rule
advanceRule(h, l) == [h EXCEPT ![l].step = @ + 1]

\* parser.startState(): a fresh object of kind null on which Document is
\* pushed; the new heap, the fresh object being Len(h) + 1
startState(h) == pushRule(Append(h, HeapState("", 0, "", "", 0)), Len(h) + 1, "Document")

\* the rules the lexer's grammar opens inside a state of kind k
LexNest(k) ==
    CASE k = "Document" -> {"Query", "FragmentDefinition"}
      [] k = "Query" -> {"SelectionSet"}
      [] k = "FragmentDefinition" -> {"TypeCondition", "SelectionSet"}
      [] k = "SelectionSet" -> {"Field"}
      [] OTHER -> {}

LexNames == {"F"}
LexTypes == {"T", "Character"}

Effect(o, a) == [op |-> o, arg |-> a]

\* what parser.token does before it reads the stream: an Invalid state is an
\* empty rule and is popped; a NamedType that got its name is a completed
\* rule, the advance owed for it pops it and the TypeCondition it completes
\* and moves the rule below to its next step
Restore(h, l) ==
    CASE h[l].kind = "Invalid" -> popRule(h, l)
      [] h[l].kind = "NamedType" /\ h[l].name # "" ->
            advanceRule(popRule(popRule(h, l), l), l)
      [] OTHER -> h

\* what one token can do to a live state s
LexEffects(s) ==
    {Effect("ws", ""), Effect("invalid", "")}
    \cup {Effect("push", k) : k \in LexNest(s.kind)}
    \cup (IF s.kind \in {"FragmentDefinition", "Field"} /\ s.name = ""
          THEN {Effect("name", n) : n \in LexNames} ELSE {})
    \cup (IF s.kind = "TypeCondition"
          THEN {Effect("advance", "")} \cup {Effect("type", t) : t \in LexTypes} ELSE {})
    \cup (IF s.prevState # 0 /\ s.kind # "" THEN {Effect("pop", "")} ELSE {})

\* parser.token(stream, state) for a token of effect e: the heap afterwards
LexToken(h, l, e) ==
    LET h0 == Restore(h, l)
    IN  CASE e.op = "ws" -> h0
          [] e.op = "invalid" -> pushRule(h0, l, "Invalid")
          [] e.op = "push" -> pushRule(h0, l, e.arg)
          [] e.op = "name" -> nameUpdate(h0, l, e.arg)
          [] e.op = "advance" -> advanceRule(h0, l)
          [] e.op = "type" -> typeUpdate(pushRule(h0, l, "NamedType"), l, e.arg)
          [] e.op = "pop" -> popRule(h0, l)

\* the style parser.token returns
Style(e) ==
    CASE e.op = "ws" -> "ws"
      [] e.op = "invalid" -> "invalidchar"
      [] e.op = "push" -> "keyword"
      [] e.op = "name" -> "def"
      [] e.op = "type" -> "atom"
      [] OTHER -> "punctuation"

\* stream.current(): the text of line i between two columns
Span(i, from, to) == [line |-> i, from |-> from, to |-> to]

\* the fields a state object holds itself
Own(s) == State(s.kind, s.step, s.name, s.type)

\* the object id and every object reachable from it through prevState,
\* innermost first, each with the fields it holds itself
RECURSIVE ChainOf(_, _)
ChainOf(h, id) == IF id = 0 THEN <<>> ELSE <<Own(h[id])>> \o ChainOf(h, h[id].prevState)

Docs == UNION {[1..n -> 0..MaxCol] : n \in 1..MaxLines}

LInit ==
    /\ pc = "build"
    /\ chain = <<>>
    /\ schemaId = 0
    /\ tokText = ""
    /\ fragments = <<>>
    /\ typeInfo = EmptyTypeInfo
    /\ result = Ok(<<>>)
    /\ lpc = "scan"
    /\ lineLen \in Docs
    /\ cursor \in [row : 0..(MaxLines - 1), column : 0..MaxCol]
    /\ cursor.row < Len(lineLen)
    /\ li = 0
    /\ start = 0
    /\ pos = 0
    /\ style = ""
    /\ heap = startState(<<>>)
    /\ live = 1
    /\ stateAtCursor = 0
    /\ styleAtCursor = ""
    /\ stringAtCursor = None
    /\ token = None
    /\ ghost = [broke |-> FALSE, afterBreak |-> 0,
                atBreak |-> <<>>,
                atCursor |-> Own(startState(<<>>)[1]), atCapture |-> <<>>]

\* one round of the while loop of runOnlineParser: parser.token reads a
\* token of len columns with effect e, then the callback of
\* getTokenAtPosition runs on the state the token left
Token(len, e) ==
    /\ lpc = "scan"
    /\ pos + len <= lineLen[li + 1]
    /\ e \in LexEffects(Restore(heap, live)[live])
    /\ LET h1 == LexToken(heap, live, e)
           end == pos + len
           onRow == li = cursor.row
           break == onRow /\ end > cursor.column
           capture == onRow /\ end <= cursor.column
       IN  /\ start' = pos
           /\ pos' = end
           /\ style' = Style(e)
           /\ heap' = IF capture THEN Append(h1, h1[live]) ELSE h1
           /\ stateAtCursor' = IF capture THEN Len(h1) + 1 ELSE stateAtCursor
           /\ styleAtCursor' = IF capture THEN Style(e) ELSE styleAtCursor
           /\ stringAtCursor' = IF capture THEN Some(Span(li, pos, end)) ELSE stringAtCursor
           /\ lpc' = IF break THEN "eol" ELSE "scan"
           /\ ghost' = [broke |-> ghost.broke \/ break,
                        afterBreak |-> ghost.afterBreak + (IF ghost.broke THEN 1 ELSE 0),
                        atBreak |-> IF break
                                    THEN <<stateAtCursor, styleAtCursor, stringAtCursor>>
                                    ELSE ghost.atBreak,
                        atCursor |-> IF li < cursor.row \/ capture
                                     THEN Own(h1[live]) ELSE ghost.atCursor,
                        atCapture |-> IF capture THEN ChainOf(h1, live) ELSE ghost.atCapture]
    /\ UNCHANGED <<lineLen, cursor, li, live, token>>
    /\ UNCHANGED suggestVars

\* behind the while loop, left at the end of the line or by break: a state
\* without a kind is replaced by a start state, and the for loop goes on with
\* the next line if there is one
EndLine ==
    /\ \/ lpc = "eol"
       \/ lpc = "scan" /\ pos = lineLen[li + 1]
    /\ LET reset == heap[live].kind = ""
           h1 == IF reset THEN startState(heap) ELSE heap
           l1 == IF reset THEN Len(heap) + 1 ELSE live
       IN  /\ heap' = h1
           /\ live' = l1
           /\ ghost' = [ghost EXCEPT !.atCursor = IF li < cursor.row THEN Own(h1[l1]) ELSE @]
    /\ IF li + 1 < Len(lineLen)
       THEN /\ li' = li + 1
            /\ start' = 0
            /\ pos' = 0
            /\ lpc' = "scan"
       ELSE /\ lpc' = "return"
            /\ UNCHANGED <<li, start, pos>>
    /\ UNCHANGED <<lineLen, cursor, style, stateAtCursor, styleAtCursor, stringAtCursor, token>>
    /\ UNCHANGED suggestVars

\* runOnlineParser returns its token and getTokenAtPosition merges what it
\* captured into it
Return ==
    /\ lpc = "return"
    /\ token' = Some([start |-> start,
                      end |-> pos,
                      string |-> IF stringAtCursor # None THEN stringAtCursor[1]
                                 ELSE Span(li, start, pos),
                      state |-> IF stateAtCursor # 0 THEN stateAtCursor ELSE live,
                      style |-> IF styleAtCursor # "" THEN styleAtCursor ELSE style])
    /\ lpc' = "done"
    /\ UNCHANGED <<lineLen, cursor, li, start, pos, style, heap, live,
                   stateAtCursor, styleAtCursor, stringAtCursor, ghost>>
    /\ UNCHANGED suggestVars

Effects == {Effect(o, a) : o \in {"ws", "invalid", "advance", "pop"}, a \in {""}}
           \cup {Effect("push", k) : k \in {"Query", "FragmentDefinition", "TypeCondition",
                                            "SelectionSet", "Field"}}
           \cup {Effect("name", n) : n \in LexNames}
           \cup {Effect("type", t) : t \in LexTypes}

LNext ==
    \/ \E len \in 1..MaxCol, e \in Effects : Token(len, e)
    \/ EndLine
    \/ Return

SpecLocator == LInit /\ [][LNext]_vars

(***************************************************************************)
(* The fragment harvest: getFragmentDefinitions over runOnlineParser, as   *)
(* getSuggestionsForFragmentSpread calls it for the token state of a       *)
(* fragment spread.                                                        *)
(***************************************************************************)
\* token states of a fragment spread: in a selection of Query.hero, of
\* type Character, and in a selection of Query
SpreadChains ==
    { << State("Query", 0, "", ""), State("SelectionSet", 0, "", ""),
         State("Field", 0, "hero", ""), State("SelectionSet", 0, "", ""),
         State("FragmentSpread", 1, "", "") >>,
      << State("Query", 0, "", ""), State("SelectionSet", 0, "", ""),
         State("FragmentSpread", 1, "", "") >> }

HInit ==
    /\ pc = "build"
    /\ chain \in SpreadChains
    /\ schemaId = 1
    /\ tokText = ""
    /\ fragments = <<>>
    /\ typeInfo = EmptyTypeInfo
    /\ result = Ok(<<>>)
    /\ lpc = "scan"
    /\ lineLen \in Docs
    /\ cursor = [row |-> 0, column |-> 0]
    /\ li = 0
    /\ start = 0
    /\ pos = 0
    /\ style = ""
    /\ heap = startState(<<>>)
    /\ live = 1
    /\ stateAtCursor = 0
    /\ styleAtCursor = ""
    /\ stringAtCursor = None
    /\ token = None
    /\ ghost = [broke |-> FALSE, afterBreak |-> 0, atBreak |-> <<>>,
                atCursor |-> Own(startState(<<>>)[1]), atCapture |-> <<>>,
                defs |-> 0]

\* one round of the while loop of runOnlineParser with the callback of
\* getFragmentDefinitions, which never returns 'BREAK'
HarvestToken(len, e) ==
    /\ lpc = "scan"
    /\ pc = "build"
    /\ pos + len <= lineLen[li + 1]
    /\ e \in LexEffects(Restore(heap, live)[live])
    /\ LET h1 == LexToken(heap, live, e)
           state == h1[live]
       IN  /\ start' = pos
           /\ pos' = pos + len
           /\ style' = Style(e)
           /\ heap' = h1
           /\ fragments' = IF state.kind = "FragmentDefinition" /\ state.name # ""
                              /\ state.type # ""
                           THEN Append(fragments, Frag(state.name, state.type))
                           ELSE fragments
           /\ ghost' = [ghost EXCEPT !.defs =
                            IF e = Effect("push", "FragmentDefinition") THEN @ + 1 ELSE @]
    /\ UNCHANGED <<lineLen, cursor, li, live, lpc,
                   stateAtCursor, styleAtCursor, stringAtCursor, token>>
    /\ UNCHANGED <<pc, chain, schemaId, tokText, typeInfo, result>>

\* getFragmentDefinitions returns fragmentDefs and
\* getSuggestionsForFragmentSpread filters and maps them
SpreadSuggest ==
    /\ lpc = "return"
    /\ pc = "build"
    /\ pc' = "done"
    /\ lpc' = "done"
    /\ typeInfo' = getTypeInfo(Schema(schemaId), chain)
    /\ result' = Ok(getSuggestionsForFragmentSpread(
                        chain, tokText, getTypeInfo(Schema(schemaId), chain), fragments))
    /\ UNCHANGED <<chain, schemaId, tokText, fragments>>
    /\ UNCHANGED <<lineLen, cursor, li, start, pos, style, heap, live,
                   stateAtCursor, styleAtCursor, stringAtCursor, token, ghost>>

HNext ==
    \/ \E len \in 1..MaxCol, e \in Effects : HarvestToken(len, e)
    \/ EndLine
    \/ SpreadSuggest

SpecHarvest == HInit /\ [][HNext]_vars

(***************************************************************************)
(* Properties of the suggestion engine (specification Spec).               *)
(***************************************************************************)
Done == pc = "done"
\* the state the dispatcher works on, and its prevState, in a finished call
HasState == Done /\ StateIndex(chain) > 0
TheState == chain[StateIndex(chain)]
ThePrev == PrevState(chain, StateIndex(chain))
Matches(r) == HasState /\ RuleCondition(r, TheState, ThePrev)

IsEnumOrBoolean(t) ==
    IsEnumType(getNamedType(t)) \/ getNamedType(t) = <<"Boolean">>

\* C1: getAutocompleteSuggestions never raises and returns a list; the list is
\* empty when the token state is Invalid without prevState, when the matched
\* rule needs context that is unresolved, and when no rule matches.
C1_NeverRaisesEmptyWhenUnresolved ==
    Done =>
        /\ ~result.raised
        /\ result.list \in Seq({Hint(t) : t \in Texts(result.list)})
        /\ (Top(chain).kind = "Invalid" /\ Len(chain) = 1) => result.list = <<>>
        /\ (Matches(RuleSelection) /\ typeInfo.parentType = None) => result.list = <<>>
        /\ (Matches(RuleArgumentName) /\ typeInfo.argDefs = None) => result.list = <<>>
        /\ (Matches(RuleObjectFieldName) /\ typeInfo.objectFieldDefs = None)
              => result.list = <<>>
        /\ (Matches(RuleLiteralValue) /\ ~IsEnumOrBoolean(typeInfo.inputType))
              => result.list = <<>>
        /\ (Matches(RuleDirective) /\ ThePrev = None) => result.list = <<>>
        /\ (HasState /\ \A r \in Rules : ~Matches(r)) => result.list = <<>>

\* an Invalid token state without prevState was answered with the empty list
C1_Witness ==
    /\ Done
    /\ Top(chain).kind = "Invalid" /\ Len(chain) = 1
    /\ result = Ok(<<>>)

Reverse(s) == [i \in 1..Len(s) |-> s[Len(s) + 1 - i]]

\* C2: at most one rule condition holds for the state's kind and prevState
\* kind at every step, and testing the rules in the opposite order gives the
\* result the code gives.
C2_RulesMutuallyExclusive ==
    HasState =>
        /\ \A st \in 0..MaxStep :
              Cardinality({r \in Rules :
                  RuleCondition(r, [TheState EXCEPT !.step = st], ThePrev)}) <= 1
        /\ result.list = Dispatch(Reverse(CodeOrder), Schema(schemaId), chain, tokText,
                                  typeInfo, fragments, TheState, ThePrev)

\* the input-object field rule matched, produced nothing, and control fell
\* through the later rules to the final empty list
C2_Witness ==
    /\ Matches(RuleObjectFieldName)
    /\ TheState.kind = "ObjectField"
    /\ typeInfo.objectFieldDefs = None
    /\ result.list = <<>>

\* C3: at a fragment-spread position no suggestion carries the name of the
\* FragmentDefinition state enclosing the cursor.
C3_NoSelfSpread ==
    Matches(RuleFragmentSpread) =>
        \A k \in 1..Len(chain) :
            chain[k].kind = "FragmentDefinition" => chain[k].name \notin Texts(result.list)

\* inside fragment F on Character the harvest holds F, spreadable there by
\* its type, and F is not suggested
C3_Witness ==
    /\ Matches(RuleFragmentSpread)
    /\ \E k \in 1..Len(chain) : chain[k].kind = "FragmentDefinition" /\ chain[k].name = "F"
    /\ typeInfo.parentType = <<"Character">>
    /\ fragments = <<Frag("F", "Character")>>
    /\ tokText = ""
    /\ result.list = <<>>

\* the location the claim gives for the kind of the enclosing state
ImpliedLocation(kind) ==
    CASE kind = "Query" -> "QUERY"
      [] kind = "Mutation" -> "MUTATION"
      [] kind = "Subscription" -> "SUBSCRIPTION"
      [] kind \in {"Field", "AliasedField"} -> "FIELD"
      [] kind = "FragmentDefinition" -> "FRAGMENT_DEFINITION"
      [] kind = "FragmentSpread" -> "FRAGMENT_SPREAD"
      [] kind = "InlineFragment" -> "INLINE_FRAGMENT"
      [] OTHER -> "none"

DirectivesAt(location) ==
    {d.name : d \in {x \in SeqToSet(Schema(schemaId).directives) :
                        location \in SeqToSet(x.locations)}}

\* C4: at a directive position only directives declared for the location of
\* the enclosing state's kind are suggested; none for other kinds or without
\* an enclosing state; inside a field no FRAGMENT_DEFINITION-only directive.
C4_DirectiveLocations ==
    Matches(RuleDirective) =>
        /\ ThePrev = None => result.list = <<>>
        /\ ThePrev # None =>
              Texts(result.list) \subseteq DirectivesAt(ImpliedLocation(ThePrev[1].kind))
        /\ (ThePrev # None /\ ThePrev[1].kind \in {"Field", "AliasedField"})
              => "onFrag" \notin Texts(result.list)

\* a directive position directly inside a field: skip is suggested, onFrag is not
C4_Witness ==
    /\ Matches(RuleDirective)
    /\ ThePrev # None /\ ThePrev[1].kind = "Field"
    /\ schemaId = 1 /\ tokText = ""
    /\ Texts(result.list) = {"skip"}

SelectionAt(abstract) ==
    /\ Matches(RuleSelection)
    /\ typeInfo.parentType # None
    /\ abstract => isAbstractType(typeInfo.parentType)
    /\ ~abstract => typeInfo.parentType = RootType(Schema(schemaId).queryType)

\* the token texts the hint list lets the candidate `name` through for
PassesFilter(name) ==
    tokText = "" \/ IsPunctuation(tokText) \/ IsPrefix(Chars(tokText), Chars(name))

\* C5 as stated: at a selection position with an abstract parent type
\* __typename is among the suggestions, and __schema and __type are for the
\* query root type, for every token text.
C5_MetaFieldsForEveryTokenText ==
    /\ SelectionAt(TRUE) => "__typename" \in Texts(result.list)
    /\ SelectionAt(FALSE) => {"__schema", "__type"} \subseteq Texts(result.list)

\* C5 amended: each meta-field is among the suggestions whenever the token
\* text is empty, punctuation or a prefix of the meta-field's name.
C5_MetaFieldsWhenTextMatches ==
    /\ (SelectionAt(TRUE) /\ PassesFilter("__typename"))
          => "__typename" \in Texts(result.list)
    /\ \A m \in {"__schema", "__type"} :
          (SelectionAt(FALSE) /\ PassesFilter(m)) => m \in Texts(result.list)

\* a selection on a union parent type with the token text "__t"
C5_Witness ==
    /\ SelectionAt(TRUE)
    /\ typeInfo.parentType = <<"SearchResult">>
    /\ tokText = "__t"
    /\ Texts(result.list) = {"__typename"}

LDone == lpc = "done"

\* C6: once a token on the cursor's row ends behind the cursor's column the
\* lexer is asked for no further token, on this row or on a later line, and
\* the captured state, style and string stay those of the previous token on
\* the cursor's row.
C6_ScanAbortsAtOvershoot ==
    ghost.broke =>
        /\ ghost.afterBreak = 0
        /\ <<stateAtCursor, styleAtCursor, stringAtCursor>> = ghost.atBreak

\* C7: the state of the returned ContextToken is the state after the last
\* token that ends at or before the cursor in scan order, also when nothing
\* was captured on the cursor's row.
C7_ReturnsStateAtCursor ==
    LDone => Own(heap[token[1].state]) = ghost.atCursor

\* C8: when getTokenAtPosition returns, the captured state and every
\* ancestor reachable from it through prevState hold the values they held
\* when the state was captured.
C8_SnapshotIsDeepCopy ==
    (LDone /\ stateAtCursor # 0) => ChainOf(heap, stateAtCursor) = ghost.atCapture

\* C9: for an Invalid token state with a prevState, the type context the call
\* used equals the type context resolved from the prevState.
C9_InvalidResolvesAsPrevState ==
    (Done /\ Top(chain).kind = "Invalid" /\ Len(chain) > 1) =>
        typeInfo = getTypeInfo(Schema(schemaId), SubSeq(chain, 1, Len(chain) - 1))

\* an Invalid state on top of a resolved selection produced suggestions
C9_Witness ==
    /\ Done /\ Top(chain).kind = "Invalid" /\ Len(chain) > 1
    /\ typeInfo.parentType # None /\ typeInfo.fieldDef # None
    /\ result.list # <<>>

\* the declared type of the field named by state, resolved against the parent
\* type in ti, or None when there is no parent type, no name or no such field
DeclaredFieldType(schema, ti, state) ==
    IF ti.parentType # None /\ state.name # ""
       /\ getFieldDef(schema, ti.parentType, state.name) # None
    THEN getFieldDef(schema, ti.parentType, state.name)[1].type
    ELSE None

\* C10: after the fold step of a Field or AliasedField state the current type
\* is the declared type of the named field, or null in every other case.
C10_FieldStepSetsOrClearsType ==
    Done =>
        \A k \in FirstIndex(chain, Len(chain))..Len(chain) :
            chain[k].kind \in {"Field", "AliasedField"} =>
                LET first == FirstIndex(chain, Len(chain))
                    before == FoldTo(Schema(schemaId), chain, first, k - 1)
                    after == FoldTo(Schema(schemaId), chain, first, k)
                IN  after.type = DeclaredFieldType(Schema(schemaId), before, chain[k])

HDone == pc = "done" /\ lpc = "done"

\* C11: the harvest holds at most one entry per fragment definition of the
\* document, whatever tokens the lexer emits; hence, when no fragment name is
\* defined twice, no two fragment-spread suggestions have the same text.
C11_OneEntryPerDefinition ==
    /\ Len(fragments) <= ghost.defs
    /\ (HDone /\ ghost.defs <= 1) =>
           \A i, j \in 1..Len(result.list) :
               result.list[i].text = result.list[j].text => i = j

====
